---- MODULE Spec2Model ----
(***************************************************************************)
(* Model of src/src/tools/e11y-tools.ts: the search / fetch / list         *)
(* operations of the accessibility documentation tools, their shared       *)
(* content cache and the two remote collaborators (index and content).     *)
(*                                                                         *)
(* Strings are sequences of one-character strings, so that toLowerCase,    *)
(* includes, indexOf, substring and split are computed as the code         *)
(* computes them.  Relevance scores are exact rationals [n, d] (n/d).      *)
(***************************************************************************)
EXTENDS Integers, Sequences, FiniteSets, TLC

\* ------------------------------------------------------------------------
\* Bounds of the model
\* ------------------------------------------------------------------------

\* how many operations (search, fetchArticle, listAll) are invoked in a run
MaxCalls == 2

\* extractSnippet is applied to contents of up to MaxBefore characters, a word,
\* and up to MaxAfter characters
MaxBefore == 52
MaxAfter == 152

\* calculateSimilarity is applied to strings of up to MaxStrLen characters
MaxStrLen == 3

\* ------------------------------------------------------------------------
\* Strings
\* ------------------------------------------------------------------------

\* String.prototype.toLowerCase on one character
LowerChar(c) ==
  CASE c = "A" -> "a"
    [] c = "B" -> "b"
    [] c = "C" -> "c"
    [] c = "D" -> "d"
    [] OTHER -> c

\* String.prototype.toLowerCase
ToLower(s) == [k \in 1..Len(s) |-> LowerChar(s[k])]

\* String.prototype.substring(from, to) with 0-based offsets, from <= to <= length
Substring(s, from, to) == SubSeq(s, from + 1, to)

\* String.prototype.indexOf: 0-based offset of the first occurrence, or -1
IndexOf(s, sub) ==
  LET hits == {k \in 0..(Len(s) - Len(sub)) : Substring(s, k, k + Len(sub)) = sub}
  IN  IF hits = {} THEN -1 ELSE CHOOSE k \in hits : \A j \in hits : k <= j

\* String.prototype.includes
Includes(s, sub) == IndexOf(s, sub) # -1

\* new Set(s.split('')): the distinct characters of s
CharSet(s) == {s[k] : k \in 1..Len(s)}

\* the characters the regular expression \s matches
IsSpace(c) == c = " "

\* query.split(/\s+/): the pieces between maximal runs of whitespace
\* (a leading or trailing run leaves an empty piece, as in JavaScript)
RECURSIVE SplitFrom(_, _, _)
SplitFrom(s, k, cur) ==
  IF k > Len(s) THEN <<cur>>
  ELSE IF IsSpace(s[k])
       THEN IF k > 1 /\ IsSpace(s[k - 1])
            THEN SplitFrom(s, k + 1, cur)
            ELSE <<cur>> \o SplitFrom(s, k + 1, <<>>)
       ELSE SplitFrom(s, k + 1, Append(cur, s[k]))

SplitWhitespace(s) == SplitFrom(s, 1, <<>>)

\* ------------------------------------------------------------------------
\* Scores: exact rationals
\* ------------------------------------------------------------------------

Frac(n, d) == [n |-> n, d |-> d]
Gt(x, y) == x.n * y.d > y.n * x.d
Lt(x, y) == Gt(y, x)
Ge(x, y) == ~Lt(x, y)
Le(x, y) == ~Gt(x, y)
Mul(x, y) == Frac(x.n * y.n, x.d * y.d)
Zero == Frac(0, 1)

\* Math.round(score * 100) / 100, as a number of hundredths
RoundHundredths(x) == (200 * x.n + x.d) \div (2 * x.d)

\* the similarity a title or a path must exceed to count as a match
SignalGate == Frac(3, 10)
\* the score below which the content of the article is searched
StrongMatch == Frac(6, 10)
\* the score a candidate must exceed to be a result
AdmissionThreshold == Frac(2, 10)
TitleWeight == Frac(1, 1)
PathWeight == Frac(7, 10)
ContentScore == Frac(1, 2)
WordWeight == Frac(4, 10)

\* the character-set overlap alone, without the exact and substring matches
calculateSimilarity_OverlapOnly(str1, str2) ==
  Frac(Cardinality(CharSet(ToLower(str1)) \cap CharSet(ToLower(str2))),
       Cardinality(CharSet(ToLower(str1)) \cup CharSet(ToLower(str2))))

\* calculateSimilarity
calculateSimilarity(str1, str2) ==
  LET s1 == ToLower(str1)
      s2 == ToLower(str2)
      chars1 == CharSet(s1)
      chars2 == CharSet(s2)
      intersection == chars1 \cap chars2
      union == chars1 \cup chars2
  IN  IF s1 = s2 THEN Frac(1, 1)
      ELSE IF Includes(s1, s2) \/ Includes(s2, s1) THEN Frac(8, 10)
      ELSE Frac(Cardinality(intersection), Cardinality(union))

\* extractSnippet
SnippetBefore == 50
SnippetAfter == 150
SnippetMaxLength == 200
Ellipsis == <<".", ".", ".">>
Min(a, b) == IF a < b THEN a ELSE b
Max(a, b) == IF a > b THEN a ELSE b

\* the leading ellipsis put whenever the match is not at the start of the content
extractSnippet_PrefixUnlessAtStart(content, query) ==
  LET index == IndexOf(ToLower(content), ToLower(query))
      start == Max(0, index - SnippetBefore)
      end == Min(Len(content), index + Len(query) + SnippetAfter)
  IN  IF index = -1
      THEN Substring(content, 0, Min(Len(content), SnippetMaxLength))
           \o (IF Len(content) > SnippetMaxLength THEN Ellipsis ELSE <<>>)
      ELSE (IF index > 0 THEN Ellipsis ELSE <<>>)
           \o Substring(content, start, end)
           \o (IF end < Len(content) THEN Ellipsis ELSE <<>>)

extractSnippet(content, query) ==
  LET index == IndexOf(ToLower(content), ToLower(query))
      start == Max(0, index - SnippetBefore)
      end == Min(Len(content), index + Len(query) + SnippetAfter)
  IN  IF index = -1
      THEN Substring(content, 0, Min(Len(content), SnippetMaxLength))
           \o (IF Len(content) > SnippetMaxLength THEN Ellipsis ELSE <<>>)
      ELSE (IF start > 0 THEN Ellipsis ELSE <<>>)
           \o Substring(content, start, end)
           \o (IF end < Len(content) THEN Ellipsis ELSE <<>>)

\* ------------------------------------------------------------------------
\* Scoring of one candidate (the body of the loop of searchAccessibilityArticles)
\* ------------------------------------------------------------------------

Reason(text, k, n) == [text |-> text, k |-> k, n |-> n]
NoReason == Reason("", 0, 0)

\* let relevanceScore = 0; let matchReason = ''; let snippet = '';
NoCandidate == [score |-> Zero, reason |-> NoReason, snippet |-> <<>>]

\* Title matching: query is the lower-cased input, title the index key
TitleStep(query, title) ==
  LET titleSimilarity == calculateSimilarity(query, ToLower(title))
  IN  IF Gt(titleSimilarity, SignalGate)
      THEN [NoCandidate EXCEPT !.score = Mul(titleSimilarity, TitleWeight),
                               !.reason = Reason("Title match", 0, 0)]
      ELSE NoCandidate

\* Path matching: replaces the score when the path is more similar than the title
PathStep(query, title, path, cand) ==
  LET titleSimilarity == calculateSimilarity(query, ToLower(title))
      pathSimilarity == calculateSimilarity(query, ToLower(path))
  IN  IF Gt(pathSimilarity, SignalGate) /\ Gt(pathSimilarity, titleSimilarity)
      THEN [cand EXCEPT !.score = Mul(pathSimilarity, PathWeight),
                        !.reason = Reason("Path match", 0, 0)]
      ELSE cand

\* the content searched whatever includeContent says
NeedsContent_IgnoresFlag(includeContent, cand) == Lt(cand.score, StrongMatch)

\* if (input.includeContent && (relevanceScore < 0.6))
NeedsContent(includeContent, cand) ==
  includeContent /\ Lt(cand.score, StrongMatch)

\* the whole query occurs in the content
ExactContentStep(query, content, cand) ==
  IF Includes(ToLower(content), query) /\ Gt(ContentScore, cand.score)
  THEN [score |-> ContentScore,
        reason |-> Reason("Content match", 0, 0),
        snippet |-> extractSnippet(content, query)]
  ELSE cand

\* query.split(/\s+/).filter(word => word.length > 2)
IsWord(w) == Len(w) > 2
QueryWords(query) == SelectSeq(SplitWhitespace(query), IsWord)

\* queryWords.filter(word => contentLower.includes(word))
WordMatches(query, content) ==
  LET InContent(w) == Includes(ToLower(content), w)
  IN  SelectSeq(QueryWords(query), InContent)

\* the share of the words found weighted by the score of a whole match
WordContentStep_WeightOfWholeMatch(query, content, cand) ==
  LET queryWords == QueryWords(query)
      wordMatches == WordMatches(query, content)
      wordScore == Mul(Frac(Len(wordMatches), Len(queryWords)), ContentScore)
  IN  IF Len(queryWords) > 0 /\ Len(wordMatches) > 0 /\ Gt(wordScore, cand.score)
      THEN [score |-> wordScore,
            reason |-> Reason("Content match (k/n words)",
                              Len(wordMatches), Len(queryWords)),
            snippet |-> extractSnippet(content, wordMatches[1])]
      ELSE cand

\* individual words of the query occur in the content
WordContentStep(query, content, cand) ==
  LET queryWords == QueryWords(query)
      wordMatches == WordMatches(query, content)
      wordScore == Mul(Frac(Len(wordMatches), Len(queryWords)), WordWeight)
  IN  IF Len(queryWords) > 0 /\ Len(wordMatches) > 0 /\ Gt(wordScore, cand.score)
      THEN [score |-> wordScore,
            reason |-> Reason("Content match (k/n words)",
                              Len(wordMatches), Len(queryWords)),
            snippet |-> extractSnippet(content, wordMatches[1])]
      ELSE cand

\* if (content) { ... }: an empty content is skipped
ContentStep(query, content, cand) ==
  IF content = <<>> THEN cand
  ELSE WordContentStep(query, content, ExactContentStep(query, content, cand))

\* the admission test with >= in place of >
Admitted_AtLeast(cand) == Ge(cand.score, AdmissionThreshold)

\* if (relevanceScore > 0.2) results.push(...)
Admitted(cand) == Gt(cand.score, AdmissionThreshold)

\* results.sort((a, b) => b.relevanceScore - a.relevanceScore): stable, descending
RECURSIVE InsertDesc(_, _)
InsertDesc(sorted, r) ==
  IF sorted = <<>> THEN <<r>>
  ELSE IF Gt(r.relevanceScore, Head(sorted).relevanceScore)
       THEN <<r>> \o sorted
       ELSE <<Head(sorted)>> \o InsertDesc(Tail(sorted), r)

\* the results left in the order of the index
SortDesc_Unsorted(rs) == rs

RECURSIVE SortDesc(_)
SortDesc(rs) ==
  IF rs = <<>> THEN <<>>
  ELSE InsertDesc(SortDesc(SubSeq(rs, 1, Len(rs) - 1)), rs[Len(rs)])

\* results.slice(0, input.maxResults), maxResults >= 0
Slice(rs, maxResults) == SubSeq(rs, 1, Min(Len(rs), maxResults))

\* the url of an article on the repository's site
UrlOf(path) == <<"https://github.com/vltansky/e11y-mcp/blob/master/">> \o path

\* limitedResults.map(result => ({...})): the output format
FormatResult(r) ==
  [title |-> r.title,
   path |-> r.path,
   url |-> UrlOf(r.path),
   relevanceScore |-> RoundHundredths(r.relevanceScore),
   matchReason |-> r.matchReason,
   snippet |-> r.snippet]

FormatResults(rs) == [k \in 1..Len(rs) |-> FormatResult(rs[k])]

\* ------------------------------------------------------------------------
\* The documents, indexes and inputs of the model
\* ------------------------------------------------------------------------

PathA == <<"a", "b", "/", "c">>
PathD == <<"d">>
PathY == <<"y">>
Paths == {PathA, PathD, PathY}

Entry(title, path) == [title |-> title, path |-> path]
EntryAb == Entry(<<"A", "b">>, PathA)
EntryAbd == Entry(<<"a", "b", "d">>, PathD)
EntryCd == Entry(<<"c", "d">>, PathA)
EntryX == Entry(<<"x">>, PathY)
EntryXx == Entry(<<"x", "x">>, PathY)

\* Object.entries(index) of the indexes the Index Provider may serve
Indexes ==
  { <<>>,
    <<EntryAb, EntryAbd>>,
    <<EntryCd, EntryX, EntryAb>>,
    <<EntryX, EntryXx>> }

Bodies ==
  { <<>>,
    <<"a", "b", "d", " ", "a", "b", "c">>,
    <<"x", " ", "A", "b", "c">> }

Queries ==
  { <<"a", "b">>,
    <<"A", "B", "/", "c">>,
    <<"a", "b", "c", " ", "a", "b", "d">> }

\* maxResults: z.number().min(1).max(20)
MaxResultsValues == {1, 2}

\* what a request to a remote collaborator ends in: a 2xx response, a 404, another
\* non-2xx status, or a rejected promise (network error, unreadable body)
Outcomes == {"ok", "404", "500", "neterr"}
\* response.ok
IsOk(outcome) == outcome = "ok"

Procs == {"p1", "p2"}

\* ------------------------------------------------------------------------
\* State
\* ------------------------------------------------------------------------

VARIABLES
  contentCache,  \* the Map path -> content of the module
  index,         \* the entries the Index Provider serves
  inv,           \* the invocations in progress, by the slot they run in
  calls,         \* operations invoked so far
  served         \* history: the bodies the Content Provider has served, by path

vars == <<contentCache, index, inv, calls, served>>

NoOut == [kind |-> "none", articles |-> <<>>, total |-> 0, query |-> <<>>,
          path |-> <<>>, content |-> <<>>, hasMetadata |-> FALSE, size |-> 0]

\* An invocation: its inputs, its position (pc), its locals, its result or error.
\* args and value are the arguments and the result of a helper function applied on
\* its own (extractSnippet, calculateSimilarity).
\* absent says that searchAccessibilityArticles was handed no includeContent.
\* settled, lookup, hadEntry, nreq and scored are history: how the index or article
\* request ended, how the content of the current entry was obtained, whether the
\* cache held the path when the last Content Provider request was issued, the
\* Content Provider requests issued so far, and the entries scored so far.
Idle ==
  [op |-> "none", pc |-> "idle",
   query |-> <<>>, maxResults |-> 0, includeContent |-> FALSE, absent |-> FALSE,
   path |-> <<>>, includeMetadata |-> FALSE,
   entries |-> <<>>, i |-> 0, cur |-> NoCandidate, content |-> <<>>,
   settled |-> "none", lookup |-> "none", hadEntry |-> FALSE, nreq |-> 0,
   results |-> <<>>, scored |-> <<>>,
   out |-> NoOut, err |-> <<>>,
   args |-> <<>>, value |-> <<>>]

\* the cache never consulted
CacheHas_Never(path) == FALSE

\* contentCache.has(path)
CacheHas(path) == path \in DOMAIN contentCache

\* a set that drops the other entries
CacheSet_DropsOthers(cache, path, content) == [q \in {path} |-> content]

\* a set that stores the lower-cased content the search matches against
CacheSet_StoresLowered(cache, path, content) ==
  [q \in (DOMAIN cache) \cup {path} |-> IF q = path THEN ToLower(content) ELSE cache[q]]

\* contentCache.set(path, content)
CacheSet(cache, path, content) ==
  [q \in (DOMAIN cache) \cup {path} |-> IF q = path THEN content ELSE cache[q]]

Init ==
  /\ contentCache = <<>>
  /\ index \in Indexes
  /\ inv = [p \in Procs |-> Idle]
  /\ calls = 0
  /\ served = [path \in Paths |-> {}]

\* ------------------------------------------------------------------------
\* searchAccessibilityArticles
\* ------------------------------------------------------------------------

\* const query = input.query.toLowerCase()
LoweredQuery(st) == ToLower(st.query)

\* the candidate after the title and path steps
TitlePathScore(query, e) ==
  PathStep(query, e.title, e.path, TitleStep(query, e.title))

\* the end of one iteration of the loop: the admission test and the push
Complete(st, cand) ==
  LET e == st.entries[st.i]
      q == LoweredQuery(st)
      result == [title |-> e.title, path |-> e.path,
                 relevanceScore |-> cand.score,
                 matchReason |-> cand.reason,
                 snippet |-> cand.snippet]
      record == [title |-> e.title, path |-> e.path,
                 afterTitle |-> TitleStep(q, e.title),
                 afterPath |-> TitlePathScore(q, e),
                 final |-> cand,
                 lookup |-> st.lookup,
                 content |-> st.content]
  IN  [st EXCEPT !.results = IF Admitted(cand) THEN Append(@, result) ELSE @,
                 !.scored = Append(@, record),
                 !.i = @ + 1,
                 !.cur = NoCandidate,
                 !.content = <<>>,
                 !.lookup = "none"]

\* the code after the loop: sort, limit, format, return
Finish(st) ==
  [st EXCEPT !.pc = "done",
             !.out = [NoOut EXCEPT
                        !.kind = "search",
                        !.articles = FormatResults(Slice(SortDesc(st.results), st.maxResults)),
                        !.total = Len(st.results),
                        !.query = st.query]]

\* the loop, run until it awaits fetchArticleContent (which reads the cache and,
\* on a miss, issues the request before it yields) or until the function returns
RECURSIVE Run(_)
Run(st) ==
  IF st.i > Len(st.entries) THEN Finish(st)
  ELSE LET e == st.entries[st.i]
           cand == TitlePathScore(LoweredQuery(st), e)
       IN  IF NeedsContent(st.includeContent, cand)
           THEN IF CacheHas(e.path)
                THEN [st EXCEPT !.pc = "resume", !.cur = cand,
                                !.content = contentCache[e.path], !.lookup = "hit"]
                ELSE [st EXCEPT !.pc = "await_content", !.cur = cand,
                                !.lookup = "miss", !.nreq = @ + 1,
                                !.hadEntry = e.path \in DOMAIN contentCache]
           ELSE Run(Complete(st, cand))

StartSearch(p, query, maxResults, includeContent) ==
  /\ inv[p].pc = "idle"
  /\ calls < MaxCalls
  /\ calls' = calls + 1
  /\ inv' = [inv EXCEPT ![p] = [Idle EXCEPT !.op = "search", !.pc = "await_index",
                                            !.query = query,
                                            !.maxResults = maxResults,
                                            !.includeContent = includeContent]]
  /\ UNCHANGED <<contentCache, index, served>>

\* the value the test of the content step, input.includeContent && ..., takes an
\* input without includeContent for: undefined is falsy (the default of
\* searchQuerySchema is applied by no one, the schema parses no input)
AbsentIncludeContent == FALSE

\* the handler of the tool search_accessibility_articles: it calls
\* searchAccessibilityArticles({query, maxResults}), with no includeContent
ToolSearch(p, query, maxResults) ==
  /\ inv[p].pc = "idle"
  /\ calls < MaxCalls
  /\ calls' = calls + 1
  /\ inv' = [inv EXCEPT ![p] = [Idle EXCEPT !.op = "search", !.pc = "await_index",
                                            !.query = query,
                                            !.maxResults = maxResults,
                                            !.includeContent = AbsentIncludeContent,
                                            !.absent = TRUE]]
  /\ UNCHANGED <<contentCache, index, served>>

\* the message of the error fetchAccessibilityIndex throws
IndexError(outcome) ==
  <<"Failed to fetch accessibility index: ">>
  \o (IF outcome = "neterr" THEN <<"Network error">>
      ELSE <<"Failed to fetch index: ", outcome>>)

\* the status of the response left unchecked
IndexFetchFails_OnlyRejection(outcome) == outcome = "neterr"

\* fetchAccessibilityIndex throws: the fetch rejects or the response is not ok
IndexFetchFails(outcome) == ~IsOk(outcome)

\* the index fetch of a search settles
SearchIndexResponse(p, outcome) ==
  /\ inv[p].pc = "await_index"
  /\ inv[p].op = "search"
  /\ inv' = [inv EXCEPT ![p] =
               IF IndexFetchFails(outcome)
               THEN [@ EXCEPT !.pc = "done", !.settled = outcome,
                              !.err = IndexError(outcome)]
               ELSE Run([@ EXCEPT !.settled = outcome, !.entries = index, !.i = 1])]
  /\ UNCHANGED <<contentCache, index, calls, served>>

\* the Content Provider answers a request for path: a 2xx response serves body
Serve(path, outcome, body) ==
  IF IsOk(outcome) THEN [served EXCEPT ![path] = @ \cup {body}] ELSE served

\* the body of the response returned whatever its status
FetchedContent_AnyStatus(outcome, body) == IF outcome = "neterr" THEN <<>> ELSE body

\* what fetchArticleContent returns when its request has settled
FetchedContent(outcome, body) == IF IsOk(outcome) THEN body ELSE <<>>

\* the empty content of a failed fetch stored like a fetched one
CacheAfterContentFetch_StoresFailure(cache, path, outcome, body) ==
  CacheSet(cache, path, IF IsOk(outcome) THEN body ELSE <<>>)

\* the cache after the request of fetchArticleContent has settled
CacheAfterContentFetch(cache, path, outcome, body) ==
  IF IsOk(outcome) THEN CacheSet(cache, path, body) ELSE cache

\* a failed request issued again for the same entry
ContentResponse_RetriesOnFailure(p, outcome, body) ==
  /\ inv[p].pc = "await_content"
  /\ LET path == inv[p].entries[inv[p].i].path
     IN  /\ inv' = [inv EXCEPT ![p] =
                      IF IsOk(outcome)
                      THEN [@ EXCEPT !.pc = "resume", !.content = body, !.lookup = "ok"]
                      ELSE [@ EXCEPT !.nreq = @ + 1]]
         /\ contentCache' = CacheAfterContentFetch(contentCache, path, outcome, body)
         /\ served' = Serve(path, outcome, body)
  /\ UNCHANGED <<index, calls>>

\* the request of fetchArticleContent settles, the Content Provider serving body
ContentResponse(p, outcome, body) ==
  /\ inv[p].pc = "await_content"
  /\ LET path == inv[p].entries[inv[p].i].path
     IN  /\ inv' = [inv EXCEPT ![p] = [@ EXCEPT !.pc = "resume",
                                                !.content = FetchedContent(outcome, body),
                                                !.lookup = IF IsOk(outcome) THEN "ok" ELSE "fail"]]
         /\ contentCache' = CacheAfterContentFetch(contentCache, path, outcome, body)
         /\ served' = Serve(path, outcome, body)
  /\ UNCHANGED <<index, calls>>

\* the loop goes on with the content fetchArticleContent returned
Resume(p) ==
  /\ inv[p].pc = "resume"
  /\ inv' = [inv EXCEPT ![p] =
               Run(Complete(@, ContentStep(LoweredQuery(@), @.content, @.cur)))]
  /\ UNCHANGED <<contentCache, index, calls, served>>

\* ------------------------------------------------------------------------
\* fetchAccessibilityArticle
\* ------------------------------------------------------------------------

\* the request is issued at once, whatever the cache holds
StartFetch(p, path, includeMetadata) ==
  /\ inv[p].pc = "idle"
  /\ calls < MaxCalls
  /\ calls' = calls + 1
  /\ inv' = [inv EXCEPT ![p] = [Idle EXCEPT !.op = "fetchArticle", !.pc = "await_article",
                                            !.path = path,
                                            !.includeMetadata = includeMetadata,
                                            !.nreq = 1,
                                            !.hadEntry = path \in DOMAIN contentCache]]
  /\ UNCHANGED <<contentCache, index, served>>

\* the not-found message without the path
ArticleError_NoPath(path, outcome) ==
  <<"Failed to fetch article content: ">>
  \o (IF outcome = "404" THEN <<"Article not found: ">>
      ELSE IF outcome = "neterr" THEN <<"Network error">>
      ELSE <<"Failed to fetch article: ", outcome>>)

\* the message of the error fetchAccessibilityArticle throws: the error thrown in
\* the try block is caught and wrapped by the catch block
ArticleError(path, outcome) ==
  <<"Failed to fetch article content: ">>
  \o (IF outcome = "404" THEN <<"Article not found: ">> \o path
      ELSE IF outcome = "neterr" THEN <<"Network error">>
      ELSE <<"Failed to fetch article: ", outcome>>)

\* the body of any response stored, its status left unchecked
CacheAfterArticleFetch_Unchecked(cache, path, outcome, body) ==
  IF outcome = "neterr" THEN cache ELSE CacheSet(cache, path, body)

\* the cache after the request of fetchAccessibilityArticle has settled
CacheAfterArticleFetch(cache, path, outcome, body) ==
  IF IsOk(outcome) THEN CacheSet(cache, path, body) ELSE cache

\* the result of fetchAccessibilityArticle (the title, source and date read from
\* the front matter of the content are left out)
ArticleResult(st, body) ==
  [NoOut EXCEPT !.kind = "article",
                !.path = st.path,
                !.content = body,
                !.hasMetadata = st.includeMetadata,
                !.size = IF st.includeMetadata THEN Len(body) ELSE 0]

ArticleResponse(p, outcome, body) ==
  /\ inv[p].pc = "await_article"
  /\ inv' = [inv EXCEPT ![p] =
               IF IsOk(outcome)
               THEN [@ EXCEPT !.pc = "done", !.settled = outcome,
                              !.out = ArticleResult(inv[p], body)]
               ELSE [@ EXCEPT !.pc = "done", !.settled = outcome,
                              !.err = ArticleError(inv[p].path, outcome)]]
  /\ contentCache' = CacheAfterArticleFetch(contentCache, inv[p].path, outcome, body)
  /\ served' = Serve(inv[p].path, outcome, body)
  /\ UNCHANGED <<index, calls>>

\* ------------------------------------------------------------------------
\* listAccessibilityArticles
\* ------------------------------------------------------------------------

\* the collation rank of a character: punctuation, then letters, case ignored
CharRank(c) ==
  CASE c = " " -> 0
    [] c = "/" -> 1
    [] LowerChar(c) = "a" -> 2
    [] LowerChar(c) = "b" -> 3
    [] LowerChar(c) = "c" -> 4
    [] LowerChar(c) = "d" -> 5
    [] LowerChar(c) = "x" -> 6
    [] OTHER -> 7

\* a.localeCompare(b) < 0 at the primary level: lexicographic on the ranks
RECURSIVE LocaleBefore(_, _)
LocaleBefore(a, b) ==
  IF b = <<>> THEN FALSE
  ELSE IF a = <<>> THEN TRUE
  ELSE IF CharRank(Head(a)) # CharRank(Head(b)) THEN CharRank(Head(a)) < CharRank(Head(b))
  ELSE LocaleBefore(Tail(a), Tail(b))

\* articles.sort((a, b) => a.title.localeCompare(b.title)): stable, ascending
RECURSIVE InsertByTitle(_, _)
InsertByTitle(sorted, r) ==
  IF sorted = <<>> THEN <<r>>
  ELSE IF LocaleBefore(r.title, Head(sorted).title)
       THEN <<r>> \o sorted
       ELSE <<Head(sorted)>> \o InsertByTitle(Tail(sorted), r)

RECURSIVE SortByTitle(_)
SortByTitle(rs) ==
  IF rs = <<>> THEN <<>>
  ELSE InsertByTitle(SortByTitle(SubSeq(rs, 1, Len(rs) - 1)), rs[Len(rs)])

ListResult(entries) ==
  [NoOut EXCEPT !.kind = "list",
                !.articles = SortByTitle([k \in 1..Len(entries) |->
                                            [title |-> entries[k].title,
                                             path |-> entries[k].path,
                                             url |-> UrlOf(entries[k].path)]]),
                !.total = Len(entries)]

StartList(p) ==
  /\ inv[p].pc = "idle"
  /\ calls < MaxCalls
  /\ calls' = calls + 1
  /\ inv' = [inv EXCEPT ![p] = [Idle EXCEPT !.op = "listAll", !.pc = "await_index"]]
  /\ UNCHANGED <<contentCache, index, served>>

\* the index fetch of a listing settles
ListIndexResponse(p, outcome) ==
  /\ inv[p].pc = "await_index"
  /\ inv[p].op = "listAll"
  /\ inv' = [inv EXCEPT ![p] =
               IF IndexFetchFails(outcome)
               THEN [@ EXCEPT !.pc = "done", !.settled = outcome,
                              !.err = IndexError(outcome)]
               ELSE [@ EXCEPT !.pc = "done", !.settled = outcome,
                              !.entries = index, !.out = ListResult(index)]]
  /\ UNCHANGED <<contentCache, index, calls, served>>

\* ------------------------------------------------------------------------
\* The caller and the specifications
\* ------------------------------------------------------------------------

\* the caller takes the result or the error of a finished invocation
Return(p) ==
  /\ inv[p].pc = "done"
  /\ inv' = [inv EXCEPT ![p] = Idle]
  /\ UNCHANGED <<contentCache, index, calls, served>>

\* the steps of the invocations that run in the slots ps
NextOf(ps) ==
  \/ \E p \in ps, q \in Queries, m \in MaxResultsValues, c \in BOOLEAN :
       StartSearch(p, q, m, c)
  \/ \E p \in ps, q \in Queries, m \in MaxResultsValues : ToolSearch(p, q, m)
  \/ \E p \in ps, o \in Outcomes : SearchIndexResponse(p, o)
  \/ \E p \in ps, o \in Outcomes, b \in Bodies : ContentResponse(p, o, b)
  \/ \E p \in ps : Resume(p)
  \/ \E p \in ps, path \in Paths, m \in BOOLEAN : StartFetch(p, path, m)
  \/ \E p \in ps, o \in Outcomes, b \in Bodies : ArticleResponse(p, o, b)
  \/ \E p \in ps : StartList(p)
  \/ \E p \in ps, o \in Outcomes : ListIndexResponse(p, o)
  \/ \E p \in ps : Return(p)

\* one operation at a time
Next == NextOf({"p1"})

Spec == Init /\ [][Next]_vars

\* two invocations at a time, interleaved at their awaits
NextConcurrent == NextOf(Procs)

SpecConcurrent == Init /\ [][NextConcurrent]_vars

\* the steps of searches only, run in the slots ps
SearchSteps(ps) ==
  \/ \E p \in ps, q \in Queries, m \in MaxResultsValues, c \in BOOLEAN :
       StartSearch(p, q, m, c)
  \/ \E p \in ps, o \in Outcomes : SearchIndexResponse(p, o)
  \/ \E p \in ps, o \in Outcomes, b \in Bodies : ContentResponse(p, o, b)
  \/ \E p \in ps : Resume(p)
  \/ \E p \in ps : Return(p)

\* repeated searches: two slots, so that the result of one search is still held
\* by its caller when another search returns
NextSearches == SearchSteps(Procs)

SpecSearches == Init /\ [][NextSearches]_vars

\* ------------------------------------------------------------------------
\* extractSnippet applied on its own
\* ------------------------------------------------------------------------

\* n filler characters, which no query contains
Fill(n) == [k \in 1..n |-> "z"]

\* the words the contents hold and the queries looked for in them
SnippetWords == {<<"A", "b", "c">>, <<"a", "b">>}
SnippetQueries == {<<"a", "b", "c">>, <<"a", "b">>, <<"q">>}

\* the contents: a word after before filler characters, after more behind it
SnippetContents ==
  {Fill(before) \o w \o Fill(after) :
     before \in 0..MaxBefore, after \in 0..MaxAfter, w \in SnippetWords}

\* one call extractSnippet(content, query) is about to be made
InitSnippet ==
  /\ contentCache = <<>>
  /\ index = <<>>
  /\ calls = 0
  /\ served = [path \in Paths |-> {}]
  /\ \E content \in SnippetContents, query \in SnippetQueries :
       inv = [p \in Procs |->
                IF p = "p1"
                THEN [Idle EXCEPT !.op = "extractSnippet", !.pc = "call",
                                  !.args = <<content, query>>]
                ELSE Idle]

\* the call returns
ExtractSnippetCall(p) ==
  /\ inv[p].op = "extractSnippet"
  /\ inv[p].pc = "call"
  /\ inv' = [inv EXCEPT ![p] = [@ EXCEPT !.pc = "done",
                                         !.value = extractSnippet(inv[p].args[1],
                                                                  inv[p].args[2])]]
  /\ UNCHANGED <<contentCache, index, calls, served>>

NextSnippet == \E p \in Procs : ExtractSnippetCall(p)

SpecSnippet == InitSnippet /\ [][NextSnippet]_vars

\* ------------------------------------------------------------------------
\* calculateSimilarity applied on its own
\* ------------------------------------------------------------------------

SimilarityAlphabet == {"a", "A", "b", "c"}

\* the strings of up to MaxStrLen characters, the empty string among them
SimilarityStrings == UNION {[1..n -> SimilarityAlphabet] : n \in 0..MaxStrLen}

\* one call calculateSimilarity(str1, str2) is about to be made
InitSimilarity ==
  /\ contentCache = <<>>
  /\ index = <<>>
  /\ calls = 0
  /\ served = [path \in Paths |-> {}]
  /\ \E str1, str2 \in SimilarityStrings :
       inv = [p \in Procs |->
                IF p = "p1"
                THEN [Idle EXCEPT !.op = "calculateSimilarity", !.pc = "call",
                                  !.args = <<str1, str2>>]
                ELSE Idle]

\* the call returns
CalculateSimilarityCall(p) ==
  /\ inv[p].op = "calculateSimilarity"
  /\ inv[p].pc = "call"
  /\ inv' = [inv EXCEPT ![p] = [@ EXCEPT !.pc = "done",
                                         !.value = calculateSimilarity(inv[p].args[1],
                                                                       inv[p].args[2])]]
  /\ UNCHANGED <<contentCache, index, calls, served>>

NextSimilarity == \E p \in Procs : CalculateSimilarityCall(p)

SpecSimilarity == InitSimilarity /\ [][NextSimilarity]_vars

\* ------------------------------------------------------------------------
\* Shorthands of the properties
\* ------------------------------------------------------------------------

SearchDone(p) == inv[p].op = "search" /\ inv[p].pc = "done" /\ inv[p].err = <<>>

\* the path a search is looking up
CurrentPath(st) == st.entries[st.i].path

\* the titles of the returned articles
ReturnedTitles(st) == {st.out.articles[k].title : k \in 1..Len(st.out.articles)}

\* ------------------------------------------------------------------------
\* C1
\* ------------------------------------------------------------------------

\* the number of scored entries whose final score is strictly above 0.2
AdmittedCount(st) ==
  Cardinality({k \in 1..Len(st.scored) : Gt(st.scored[k].final.score, Frac(2, 10))})

\* C1: a search that returns has scored every index entry; totalFound is the number
\* of entries whose final relevance score is strictly greater than 0.2, counted
\* before truncation, and articles has exactly min(maxResults, totalFound) elements.
C1_TotalFoundAndLength ==
  \A p \in Procs :
    SearchDone(p) =>
      /\ Len(inv[p].scored) = Len(index)
      /\ inv[p].out.total = AdmittedCount(inv[p])
      /\ Len(inv[p].out.articles) = Min(inv[p].maxResults, AdmittedCount(inv[p]))

\* a search over three entries scored with content, one of them dropped at
\* exactly 0.2, that found two and returned one
C1_Witness ==
  \E p \in Procs :
    /\ SearchDone(p)
    /\ inv[p].includeContent
    /\ Len(inv[p].scored) = 3
    /\ \E k \in 1..3 : inv[p].scored[k].final.score = Frac(4, 20)
    /\ inv[p].out.total = 2
    /\ Len(inv[p].out.articles) = 1

\* ------------------------------------------------------------------------
\* C2
\* ------------------------------------------------------------------------

\* C2: the returned articles are in non-increasing order of relevanceScore, they
\* are admitted candidates, and every admitted candidate cut off by maxResults has
\* a score no greater than the score of every returned article.
C2_RankedAndCutOff ==
  \A p \in Procs :
    SearchDone(p) =>
      LET arts == inv[p].out.articles
          res == inv[p].results
      IN  /\ \A j, k \in 1..Len(arts) :
               j < k => arts[j].relevanceScore >= arts[k].relevanceScore
          /\ \A k \in 1..Len(arts) :
               \E j \in 1..Len(res) :
                 /\ res[j].title = arts[k].title
                 /\ RoundHundredths(res[j].relevanceScore) = arts[k].relevanceScore
          /\ \A j, k \in 1..Len(res) :
               (res[j].title \notin ReturnedTitles(inv[p])
                  /\ res[k].title \in ReturnedTitles(inv[p]))
               => Le(res[j].relevanceScore, res[k].relevanceScore)

\* three candidates admitted in an order that is not the ranking, two returned
C2_Witness ==
  \E p \in Procs :
    /\ SearchDone(p)
    /\ Len(inv[p].results) = 3
    /\ Len(inv[p].out.articles) = 2
    /\ Lt(inv[p].results[2].relevanceScore, inv[p].results[3].relevanceScore)
    /\ inv[p].out.articles[1].relevanceScore > inv[p].out.articles[2].relevanceScore

\* ------------------------------------------------------------------------
\* C3
\* ------------------------------------------------------------------------

\* includeContent is true and entry k scores below 0.6 after the title and path steps
ContentGate(st, k) ==
  /\ st.includeContent
  /\ Lt(TitlePathScore(ToLower(st.query), st.entries[k]).score, Frac(6, 10))

\* a step of search p that reads the cache or issues a Content Provider request
LooksUp(p) ==
  /\ inv'[p].op = "search"
  /\ inv'[p] # inv[p]
  /\ \/ inv'[p].nreq > inv[p].nreq
     \/ inv'[p].pc = "resume" /\ inv'[p].lookup = "hit"

\* a step of search p that changes the cache
SearchWrites(p) ==
  /\ inv[p].op = "search"
  /\ inv'[p] # inv[p]
  /\ contentCache' # contentCache

\* C3: a step of a search reads the cache or issues a Content Provider request for
\* an entry, or changes the cache, only if includeContent is true and the entry
\* scores below 0.6 after the title and path steps; and no request is counted for a
\* search with includeContent false.
C3_LookupOnlyWhenGated ==
  /\ [](\A p \in Procs :
          (inv[p].op = "search" /\ ~inv[p].includeContent) => inv[p].nreq = 0)
  /\ [][\A p \in Procs :
          /\ LooksUp(p) => ContentGate(inv'[p], inv'[p].i)
          /\ SearchWrites(p) => ContentGate(inv[p], inv[p].i)]_vars

\* a finished search with includeContent that looked up one entry and, for a
\* strong title match, looked up nothing
C3_Witness ==
  \E p \in Procs :
    /\ SearchDone(p)
    /\ inv[p].includeContent
    /\ \E j, k \in 1..Len(inv[p].scored) :
         /\ inv[p].scored[j].lookup = "ok"
         /\ inv[p].scored[k].lookup = "none"
         /\ Ge(inv[p].scored[k].afterPath.score, Frac(6, 10))

\* ------------------------------------------------------------------------
\* C4
\* ------------------------------------------------------------------------

\* the weighted title and path signals of an entry that pass the 0.3 gate
GatedSignals(query, e) ==
  LET t == calculateSimilarity(query, ToLower(e.title))
      q == calculateSimilarity(query, ToLower(e.path))
  IN  (IF Gt(t, Frac(3, 10)) THEN {Mul(t, Frac(1, 1))} ELSE {})
      \cup (IF Gt(q, Frac(3, 10)) THEN {Mul(q, Frac(7, 10))} ELSE {})

\* C4: in the order title, path, content the running score of a candidate never
\* decreases from one step to the next, and the final score is no lower than any
\* weighted signal that passed its gate (the path step never replaces a title
\* score by a lower value).
C4_ScoreNeverDecreases ==
  \A p \in Procs :
    \A k \in 1..Len(inv[p].scored) :
      LET r == inv[p].scored[k]
      IN  /\ Le(r.afterTitle.score, r.afterPath.score)
          /\ Le(r.afterPath.score, r.final.score)
          /\ \A x \in GatedSignals(ToLower(inv[p].query), r) : Ge(r.final.score, x)

\* ------------------------------------------------------------------------
\* C5
\* ------------------------------------------------------------------------

\* C5: once the index fetch of a search has succeeded the search ends in no error,
\* whatever the content fetches end in: a failed content fetch hands the empty
\* content to the loop, the entry keeps its title and path score, the loop goes on
\* and the search returns with every entry of the index scored.
C5_ContentFailureTolerated ==
  \A p \in Procs :
    (inv[p].op = "search" /\ inv[p].settled = "ok") =>
      /\ inv[p].err = <<>>
      /\ inv[p].pc \in {"await_content", "resume", "done"}
      /\ (inv[p].pc = "resume" /\ inv[p].lookup = "fail") => inv[p].content = <<>>
      /\ \A k \in 1..Len(inv[p].scored) :
           inv[p].scored[k].lookup = "fail" =>
             /\ inv[p].scored[k].content = <<>>
             /\ inv[p].scored[k].final = inv[p].scored[k].afterPath
      /\ inv[p].pc = "done" =>
           /\ inv[p].out.kind = "search"
           /\ Len(inv[p].scored) = Len(index)

\* a search that returned results although its first content fetch failed, a later
\* entry having been scored on its content
C5_Witness ==
  \E p \in Procs :
    /\ SearchDone(p)
    /\ Len(inv[p].scored) >= 2
    /\ inv[p].scored[1].lookup = "fail"
    /\ inv[p].scored[2].lookup = "ok"
    /\ inv[p].scored[2].final.reason.text = "Content match"
    /\ inv[p].out.total >= 1

\* ------------------------------------------------------------------------
\* C6
\* ------------------------------------------------------------------------

IndexFetchFailed(st) ==
  st.op \in {"search", "listAll"} /\ st.settled \in Outcomes \ {"ok"}

\* C6: when the index fetch fails (non-2xx status or network error) search and
\* listAll end in the index-fetch error with no result, no entry scored and no
\* Content Provider request issued, and the cache is as it was.
C6_IndexFailureAborts ==
  /\ [](\A p \in Procs :
          IndexFetchFailed(inv[p]) =>
            /\ inv[p].pc = "done"
            /\ inv[p].err # <<>>
            /\ inv[p].err[1] = "Failed to fetch accessibility index: "
            /\ inv[p].out = NoOut
            /\ inv[p].entries = <<>>
            /\ inv[p].scored = <<>>
            /\ inv[p].results = <<>>
            /\ inv[p].nreq = 0)
  /\ [][\A p \in Procs :
          (inv[p].pc = "await_index" /\ IndexFetchFailed(inv'[p]))
            => contentCache' = contentCache]_vars

\* a search whose index fetch was answered 500, with a cache that holds an entry
C6_Witness ==
  \E p \in Procs :
    /\ inv[p].op = "search"
    /\ inv[p].pc = "done"
    /\ inv[p].settled = "500"
    /\ inv[p].includeContent
    /\ contentCache # <<>>

\* ------------------------------------------------------------------------
\* C7
\* ------------------------------------------------------------------------

\* the content fetch of search p has just failed
ContentFetchFailed(st) ==
  st.op = "search" /\ st.pc = "resume" /\ st.lookup = "fail"

C8_RequestOnlyOnMiss ==
  \A p \in Procs :
    inv[p].pc \in {"await_content", "await_article"} => ~inv[p].hadEntry

\* C8 amended: the content step of search issues a Content Provider request only
\* when the cache holds no entry for the path at that moment, and takes the cached
\* content otherwise; fetchArticle issues its request whatever the cache holds.
C8_SearchRequestsOnlyOnMiss ==
  /\ [](\A p \in Procs :
          /\ inv[p].pc = "await_content" => ~inv[p].hadEntry
          /\ (inv[p].op = "fetchArticle" /\ inv[p].pc = "await_article")
               => inv[p].nreq = 1)
  /\ [][\A p \in Procs :
          (inv'[p] # inv[p] /\ inv'[p].pc = "resume" /\ inv'[p].lookup = "hit")
            => /\ inv'[p].nreq = inv[p].nreq
               /\ CurrentPath(inv'[p]) \in DOMAIN contentCache
               /\ inv'[p].content = contentCache[CurrentPath(inv'[p])]]_vars

\* a search took one entry from the cache, filled by an earlier operation, and
\* has a request in flight for another
C8_Witness ==
  \E p \in Procs :
    /\ inv[p].op = "search"
    /\ inv[p].pc = "await_content"
    /\ inv[p].nreq = 1
    /\ \E k \in 1..Len(inv[p].scored) : inv[p].scored[k].lookup = "hit"

\* ------------------------------------------------------------------------
\* C9
\* ------------------------------------------------------------------------

\* C9 as stated: a path that has an entry keeps it, with the body first stored.
C9_EntriesImmutable ==
  [][\A path \in DOMAIN contentCache :
       /\ path \in DOMAIN contentCache'
       /\ contentCache'[path] = contentCache[path]]_vars

\* invocation p receives, in this step, a successful response for path
FetchSucceeds(p, path) ==
  \/ /\ inv[p].pc = "await_article"
     /\ inv[p].path = path
     /\ inv'[p].settled = "ok"
     /\ inv'[p].out.content = contentCache'[path]
  \/ /\ inv[p].pc = "await_content"
     /\ CurrentPath(inv[p]) = path
     /\ inv'[p].lookup = "ok"
     /\ inv'[p].content = contentCache'[path]

\* C9 amended: a path that has an entry still has one after any step (no eviction
\* or invalidation), and its body changes only when a later fetch of that path
\* succeeds, to the body that fetch returned: the entry holds the body of the
\* latest successful fetch, not of the first.
C9_EntriesKeptAndRefreshed ==
  [][\A path \in DOMAIN contentCache :
       /\ path \in DOMAIN contentCache'
       /\ contentCache'[path] # contentCache[path]
            => \E p \in Procs : FetchSucceeds(p, path)]_vars

\* fetchArticle has replaced the body of an entry while another entry stayed
C9_Witness ==
  \E p \in Procs :
    /\ inv[p].op = "fetchArticle"
    /\ inv[p].pc = "done"
    /\ inv[p].hadEntry
    /\ inv[p].settled = "ok"
    /\ Cardinality(DOMAIN contentCache) = 2

\* ------------------------------------------------------------------------
\* C10
\* ------------------------------------------------------------------------

ArticleFetchFailed(st) ==
  st.op = "fetchArticle" /\ st.pc = "done" /\ st.settled \in Outcomes \ {"ok"}

\* C10: fetchArticle on a path the remote answers 404 for fails with the
\* article-not-found error, whose message contains the path; any other non-2xx
\* status or a network error fails with a fetch failure that is not the not-found
\* error; in both cases no result is returned and the cache is left as it was.
C10_ArticleFetchErrors ==
  /\ [](\A p \in Procs :
          ArticleFetchFailed(inv[p]) =>
            /\ inv[p].out = NoOut
            /\ inv[p].err # <<>>
            /\ inv[p].err[1] = "Failed to fetch article content: "
            /\ inv[p].settled = "404" <=> Includes(inv[p].err, <<"Article not found: ">>)
            /\ inv[p].settled = "404" =>
                 Includes(inv[p].err, <<"Article not found: ">> \o inv[p].path)
            /\ inv[p].settled = "500" =>
                 Includes(inv[p].err, <<"Failed to fetch article: ", "500">>))
  /\ [][\A p \in Procs :
          (inv[p].pc = "await_article" /\ ArticleFetchFailed(inv'[p]))
            => contentCache' = contentCache]_vars

\* fetchArticle answered 404 for a path that has no cache entry
C10_Witness ==
  \E p \in Procs :
    /\ ArticleFetchFailed(inv[p])
    /\ inv[p].settled = "404"
    /\ inv[p].path \notin DOMAIN contentCache

\* ------------------------------------------------------------------------
\* C11
\* ------------------------------------------------------------------------

\* two searches that have returned, invoked with the same inputs
SameSearch(p, q) ==
  /\ p # q
  /\ SearchDone(p) /\ SearchDone(q)
  /\ inv[p].query = inv[q].query
  /\ inv[p].maxResults = inv[q].maxResults
  /\ inv[p].includeContent = inv[q].includeContent

\* the document contents are unchanged: the Content Provider has served no path
\* two different bodies
ContentsUnchanged == \A path \in Paths : Cardinality(served[path]) <= 1

\* a content fetch of search p failed
SomeFetchFailed(p) ==
  \E k \in 1..Len(inv[p].scored) : inv[p].scored[k].lookup = "fail"

ContentLookedUp(st, k) == st.scored[k].lookup # "none"

\* C12: a search invoked without an includeContent value, as the tool handler
\* invokes it, takes includeContent for true, the default of the schema: it
\* performs the content step for every entry whose title and path score is
\* below 0.6.
C12_AbsentIncludeContentIsTrue ==
  \A p \in Procs :
    (inv[p].op = "search" /\ inv[p].absent) =>
      \A k \in 1..Len(inv[p].scored) :
        Lt(inv[p].scored[k].afterPath.score, Frac(6, 10))
          => ContentLookedUp(inv[p], k)

\* ------------------------------------------------------------------------
\* C13
\* ------------------------------------------------------------------------

\* extractSnippet has returned to p
SnippetDone(p) == inv[p].op = "extractSnippet" /\ inv[p].pc = "done"

\* the offset at which extractSnippet finds the query in the content, or -1
MatchOffset(st) == IndexOf(ToLower(st.args[1]), ToLower(st.args[2]))

\* C13: when the query occurs in the content, extractSnippet returns a string
\* that contains the query and whose length is at most 200 + 6 characters.
C13_SnippetContainsQueryAndBounded ==
  \A p \in Procs :
    (SnippetDone(p) /\ MatchOffset(inv[p]) # -1) =>
      /\ Includes(inv[p].value, inv[p].args[2])
      /\ Len(inv[p].value) <= 200 + 6

\* ------------------------------------------------------------------------
\* C14
\* ------------------------------------------------------------------------

\* calculateSimilarity has returned to p
SimilarityDone(p) == inv[p].op = "calculateSimilarity" /\ inv[p].pc = "done"

\* the result is a defined number (no division by zero) in [0,1]
DefinedInUnitInterval(x) == x.d > 0 /\ 0 <= x.n /\ x.n <= x.d

\* C14 as stated: similarity never divides by zero, the similarity of two empty
\* strings is 0.0, and for all inputs the result is a defined number in [0,1].
C14_EmptyStringsScoreZero ==
  \A p \in Procs :
    SimilarityDone(p) =>
      /\ DefinedInUnitInterval(inv[p].value)
      /\ (inv[p].args[1] = <<>> /\ inv[p].args[2] = <<>>) => inv[p].value.n = 0

\* C14 amended: similarity never divides by zero and its result is a defined
\* number in [0,1] for all inputs; two empty strings are equal and score 1.0, one
\* empty string is a substring of the other string and scores 0.8, so the
\* character-set ratio is computed only for two non-empty strings.
C14_EmptyStringsScoreAsEqual ==
  \A p \in Procs :
    SimilarityDone(p) =>
      LET str1 == inv[p].args[1]
          str2 == inv[p].args[2]
      IN  /\ DefinedInUnitInterval(inv[p].value)
          /\ (str1 = <<>> /\ str2 = <<>>) => inv[p].value = Frac(1, 1)
          /\ ((str1 = <<>>) # (str2 = <<>>)) => inv[p].value = Frac(8, 10)
          /\ inv[p].value \notin {Frac(1, 1), Frac(8, 10)}
               => /\ str1 # <<>> /\ str2 # <<>>
                  /\ inv[p].value.d = Cardinality(CharSet(ToLower(str1))
                                                  \cup CharSet(ToLower(str2)))

\* the similarity of two empty strings has been computed
C14_Witness ==
  \E p \in Procs :
    /\ SimilarityDone(p)
    /\ inv[p].args = <<<<>>, <<>>>>
    /\ inv[p].value = Frac(1, 1)

\* ------------------------------------------------------------------------
\* C15
\* ------------------------------------------------------------------------

\* the content of the entry was asked of the Content Provider and the request
\* has settled
Fetched(lookup) == lookup \in {"ok", "fail"}

\* the Content Provider requests of search st that have settled
SettledRequests(st) ==
  Cardinality({k \in 1..Len(st.scored) : Fetched(st.scored[k].lookup)})
  + (IF st.pc = "resume" /\ Fetched(st.lookup) THEN 1 ELSE 0)

\* the content fetches of search st that are outstanding
Outstanding(st) == st.nreq - SettledRequests(st)

\* C15: within one search the entries are processed one at a time. The entries
\* before the current one are done with; at most one content fetch of the search
\* is outstanding, and only while the search waits for it on the current entry;
\* a request is issued only when none is outstanding, one per step and for an
\* entry after all the entries done with, so at most one per index entry; and the
\* search turns to the next entry only when no fetch is outstanding.
C15_OneEntryAtATime ==
  /\ [](\A p \in Procs :
          (inv[p].op = "search" /\ inv[p].settled = "ok") =>
            /\ Len(inv[p].scored) = inv[p].i - 1
            /\ Outstanding(inv[p]) \in {0, 1}
            /\ Outstanding(inv[p]) = 1 <=> inv[p].pc = "await_content"
            /\ inv[p].nreq <= Len(inv[p].scored) + (IF inv[p].pc = "done" THEN 0 ELSE 1)
            /\ inv[p].nreq <= Len(index))
  /\ [][\A p \in Procs :
          /\ inv'[p].nreq > inv[p].nreq =>
               /\ inv'[p].nreq = inv[p].nreq + 1
               /\ Outstanding(inv[p]) = 0
               /\ inv'[p].op = "search" => inv'[p].i > Len(inv[p].scored)
          /\ (inv[p].op = "search" /\ inv'[p].op = "search" /\ inv'[p].i > inv[p].i)
               => Outstanding(inv[p]) = 0]_vars

\* a search over three entries waits for the content of its second entry, the
\* fetch of the first having failed: its second request, the only one outstanding
C15_Witness ==
  \E p \in Procs :
    /\ inv[p].op = "search"
    /\ inv[p].pc = "await_content"
    /\ Len(inv[p].entries) = 3
    /\ inv[p].i = 2
    /\ inv[p].nreq = 2
    /\ inv[p].scored[1].lookup = "fail"
    /\ Outstanding(inv[p]) = 1

\* ------------------------------------------------------------------------
\* C16
\* ------------------------------------------------------------------------

\* a request of invocation p for a path fails in this step
FetchFails(p) ==
  \/ inv[p].pc = "await_content" /\ inv'[p].pc = "resume" /\ inv'[p].lookup = "fail"
  \/ inv[p].pc = "await_article" /\ ArticleFetchFailed(inv'[p])

\* C16: under every interleaving of concurrent search and fetchArticle
\* invocations that share the cache, each cache entry of a path holds a body the
\* Content Provider served in a successful response for that path, a failed fetch
\* changes no entry, and the content a search takes from the cache for a path is
\* a body served for that path.
C16_CacheHoldsServedBodies ==
  /\ [](/\ \A path \in DOMAIN contentCache :
             path \in Paths /\ contentCache[path] \in served[path]
        /\ \A p \in Procs :
             /\ (inv[p].pc = "resume" /\ inv[p].lookup = "hit")
                  => inv[p].content \in served[CurrentPath(inv[p])]
             /\ \A k \in 1..Len(inv[p].scored) :
                  inv[p].scored[k].lookup = "hit"
                    => inv[p].scored[k].content \in served[inv[p].scored[k].path])
  /\ [][\A p \in Procs : FetchFails(p) => contentCache' = contentCache]_vars

\* while the request of a search for a path is in flight, a concurrent fetchArticle
\* has stored an entry for that path, which the response to the search will replace
C16_Witness ==
  \E p, q \in Procs :
    /\ p # q
    /\ inv[p].op = "search"
    /\ inv[p].pc = "await_content"
    /\ CurrentPath(inv[p]) \in DOMAIN contentCache
    /\ inv[q].op = "fetchArticle"
    /\ inv[q].pc = "done"
    /\ inv[q].settled = "ok"
    /\ inv[q].path = CurrentPath(inv[p])
    /\ contentCache[inv[q].path] = inv[q].out.content
    /\ contentCache[inv[q].path] # <<>>

\* ------------------------------------------------------------------------
\* C17
\* ------------------------------------------------------------------------

\* the snippet begins, ends with "..." (no content of the model holds a dot)
StartsWithEllipsis(v) == Len(v) >= 3 /\ SubSeq(v, 1, 3) = <<".", ".", ".">>
EndsWithEllipsis(v) == Len(v) >= 3 /\ SubSeq(v, Len(v) - 2, Len(v)) = <<".", ".", ".">>

\* the snippet without its ellipses
Window(v) ==
  SubSeq(v, IF StartsWithEllipsis(v) THEN 4 ELSE 1,
            IF EndsWithEllipsis(v) THEN Len(v) - 3 ELSE Len(v))

\* C17: when the query is found at offset i, the snippet is the window of the
\* content from 50 characters before i (or from 0) to 150 characters after the end
\* of the match (or to the end of the content), prefixed with "..." exactly when
\* i > 50 and suffixed with "..." exactly when the window ends before the end of
\* the content; when the query is not found, the snippet is the first 200
\* characters, suffixed with "..." exactly when the content is longer than 200,
\* and never prefixed.
C17_EllipsisRules ==
  \A p \in Procs :
    SnippetDone(p) =>
      LET content == inv[p].args[1]
          query == inv[p].args[2]
          i == MatchOffset(inv[p])
          v == inv[p].value
      IN  IF i # -1
          THEN /\ StartsWithEllipsis(v) <=> i > 50
               /\ EndsWithEllipsis(v) <=> i + Len(query) + 150 < Len(content)
               /\ Window(v) = SubSeq(content,
                                     (IF i > 50 THEN i - 50 ELSE 0) + 1,
                                     IF i + Len(query) + 150 < Len(content)
                                     THEN i + Len(query) + 150 ELSE Len(content))
          ELSE /\ ~StartsWithEllipsis(v)
               /\ EndsWithEllipsis(v) <=> Len(content) > 200
               /\ Window(v) = SubSeq(content, 1,
                                     IF Len(content) > 200 THEN 200 ELSE Len(content))

\* the query was found at offset 51 of a content that ends exactly where the
\* window ends: the snippet has the leading ellipsis and no trailing one
C17_Witness ==
  \E p \in Procs :
    /\ SnippetDone(p)
    /\ MatchOffset(inv[p]) = 51
    /\ Len(inv[p].args[1]) = 51 + Len(inv[p].args[2]) + 150
    /\ StartsWithEllipsis(inv[p].value)
    /\ ~EndsWithEllipsis(inv[p].value)
    /\ Len(inv[p].value) = 3 + Len(inv[p].args[1]) - 1

\* ------------------------------------------------------------------------
\* C18
\* ------------------------------------------------------------------------

\* the candidate words of the query of search st: the pieces between whitespace
\* that are longer than 2 characters
CandidateWords(st) ==
  LET pieces == SplitWhitespace(ToLower(st.query))
  IN  {pieces[j] : j \in {m \in 1..Len(pieces) : Len(pieces[m]) > 2}}

\* the candidate words that occur in the content of a scored entry
WordsInBody(st, r) == {w \in CandidateWords(st) : Includes(ToLower(r.content), w)}

\* a scored entry that has no title or path signal above 0.3 and a body that
\* does not contain the whole query
WordOverlapOnly(st, r) ==
  /\ r.afterPath = NoCandidate
  /\ r.content # <<>>
  /\ ~Includes(ToLower(r.content), ToLower(st.query))

\* the scored entry is among the admitted results of the search
InResults(st, r) == \E j \in 1..Len(st.results) : st.results[j].title = r.title

\* C18: a candidate with no title or path signal above 0.3 whose body does not
\* contain the whole query is admitted exactly when strictly more than half of the
\* candidate words of the query occur in the body: for k of n words with 0 < k
\* and 2k <= n the score (k/n) * 0.4 is at most 0.2 and the candidate is dropped;
\* and every returned article with reason "Content match (k/n words)" has 2k > n.
C18_WordOverlapNeedsMajority ==
  \A p \in Procs :
    inv[p].op = "search" =>
      /\ \A j \in 1..Len(inv[p].scored) :
           LET r == inv[p].scored[j]
               k == Cardinality(WordsInBody(inv[p], r))
               n == Cardinality(CandidateWords(inv[p]))
           IN  WordOverlapOnly(inv[p], r) =>
                 /\ InResults(inv[p], r) <=> 2 * k > n
                 /\ (0 < k /\ 2 * k <= n) =>
                      /\ r.final.reason = Reason("Content match (k/n words)", k, n)
                      /\ r.final.score = Mul(Frac(k, n), Frac(4, 10))
                      /\ Le(r.final.score, Frac(2, 10))
      /\ \A j \in 1..Len(inv[p].out.articles) :
           LET a == inv[p].out.articles[j]
           IN  a.matchReason.text = "Content match (k/n words)"
                 => 2 * a.matchReason.k > a.matchReason.n

\* a search has dropped an entry without title or path signal whose body holds
\* one of the two words of the query, at a score of exactly 0.2
C18_Witness ==
  \E p \in Procs :
    /\ SearchDone(p)
    /\ \E j \in 1..Len(inv[p].scored) :
         /\ WordOverlapOnly(inv[p], inv[p].scored[j])
         /\ inv[p].scored[j].final.reason = Reason("Content match (k/n words)", 1, 2)
         /\ inv[p].scored[j].final.score = Frac(4, 20)
         /\ ~InResults(inv[p], inv[p].scored[j])
====
